---------------------------- MODULE Spec2Model ----------------------------
(***************************************************************************)
(* Model of the option pricing engine of black_scholes_web:                *)
(*   black_scholes_price, binomial_tree_price and generate_heatmap of      *)
(*   option_pricing.py, driven as black_scholes_web_app.py drives them.    *)
(*                                                                         *)
(* Numbers.  Python floats are modelled as fixed-point decimals: the       *)
(* integer n stands for n / Scale, and every arithmetic operation rounds   *)
(* its result to the nearest representable value, as a float operation     *)
(* does.  The library functions (np.exp, np.sqrt, np.log, norm.cdf) are    *)
(* computed on that grid by series, not assumed.                           *)
(***************************************************************************)
EXTENDS Integers, Sequences, FiniteSets, TLC

\* Resolution of the fixed-point grid: three decimal digits.
Scale == 1000

One == Scale

Half == Scale \div 2

Abs(x) == IF x < 0 THEN -x ELSE x

\* a / b for integers, rounded to the nearest integer (b # 0).
RoundDiv(a, b) ==
    LET n == IF b < 0 THEN -a ELSE a
        m == Abs(b)
    IN  (2 * n + m) \div (2 * m)

\* float multiplication and division on the grid
FMul(a, b) == RoundDiv(a * b, Scale)

FDiv(a, b) == RoundDiv(a * Scale, b)

RECURSIVE IntSqrtIn(_, _, _)
\* the largest g in lo..hi with g * g <= n, by bisection
IntSqrtIn(n, lo, hi) ==
    IF lo >= hi THEN lo
    ELSE LET mid == (lo + hi + 1) \div 2
         IN  IF mid * mid <= n THEN IntSqrtIn(n, mid, hi) ELSE IntSqrtIn(n, lo, mid - 1)

\* np.sqrt on the grid, for 0 <= x <= 40: sqrt(x / Scale) * Scale = sqrt(x * Scale)
FSqrt(x) == IntSqrtIn(x * Scale, 0, 7 * Scale)

\* Number of terms np.exp and np.log are summed to.
ExpTerms == 8

RECURSIVE ExpSeries(_, _, _)
ExpSeries(x, term, n) ==
    IF n > ExpTerms \/ term = 0 THEN 0
    ELSE term + ExpSeries(x, RoundDiv(term * x, n * Scale), n + 1)

\* np.exp on the grid: e^x = sum x^n / n!
FExp(x) == ExpSeries(x, One, 1)

RECURSIVE AtanhSeries(_, _, _)
AtanhSeries(z2, pow, n) ==
    IF n > ExpTerms \/ pow = 0 THEN 0
    ELSE RoundDiv(pow, 2 * n - 1) + AtanhSeries(z2, FMul(pow, z2), n + 1)

\* np.log on the grid, for y > 0: ln y = 2 atanh((y - 1) / (y + 1))
FLog(y) ==
    LET z == FDiv(y - One, y + One)
    IN  2 * AtanhSeries(FMul(z, z), z, 1)

\* float ** int for n >= 0, by squaring (x ** 0 = 1.0, also for x = 0.0)
RECURSIVE FPow(_, _)
FPow(x, n) ==
    IF n <= 0 THEN One
    ELSE LET h == FPow(x, n \div 2)
         IN  IF n % 2 = 0 THEN FMul(h, h) ELSE FMul(FMul(h, h), x)

\* Number of terms norm.cdf is summed to.
CdfTerms == 24

\* 1 / sqrt(2 pi) on the grid
InvSqrt2Pi == RoundDiv(399 * Scale, 1000)

RECURSIVE ErfSeries(_, _, _)
ErfSeries(x2, term, n) ==
    IF n > CdfTerms \/ term = 0 THEN 0
    ELSE RoundDiv(term, 2 * n + 1)
         + ErfSeries(x2, -RoundDiv(term * x2, 2 * (n + 1) * Scale), n + 1)

\* Phi(z) for z >= 0: 1/2 + (1/sqrt(2 pi)) sum (-1)^n z^(2n+1) / (n! 2^n (2n+1)),
\* saturating at 1 in the far tail.
CdfUpper(z) ==
    IF z >= 3 * One THEN One
    ELSE LET s == Half + FMul(InvSqrt2Pi, ErfSeries(FMul(z, z), z, 0))
         IN  IF s > One THEN One ELSE s

\* scipy.stats.norm.cdf: the standard normal distribution function, computed on
\* |x| and reflected for negative arguments.
NormCdf(x) == IF x >= 0 THEN CdfUpper(x) ELSE One - CdfUpper(-x)

(***************************************************************************)
(* Results.  A call either returns a value or raises; err names the        *)
(* Python exception ("none" when the call returned).                       *)
(***************************************************************************)
Returned(v) == [err |-> "none", value |-> v]

Raised(e) == [err |-> e, value |-> 0]

InvalidOptionType == "ValueError: Invalid option type. Use 'call' or 'put'."

\* option_pricing.py:21 with Python numbers
ZeroDivision == "ZeroDivisionError: float division by zero"

\* option_pricing.py:27, prices = np.zeros(0)
IndexOutOfBounds == "IndexError: index 0 is out of bounds for axis 0 with size 0"

\* option_pricing.py:26, np.zeros(steps + 1) with steps + 1 < 0
NegativeDimensions == "ValueError: negative dimensions are not allowed"

\* option_pricing.py:51, the module never imports seaborn
NameErrorSns == "NameError: name 'sns' is not defined"

(***************************************************************************)
(* black_scholes_price                                                     *)
(***************************************************************************)
BsD1(S, K, T, r, sigma) ==
    FDiv(FLog(FDiv(S, K)) + FMul(r + FMul(Half, FMul(sigma, sigma)), T),
         FMul(sigma, FSqrt(T)))

BsD2(S, K, T, r, sigma) == BsD1(S, K, T, r, sigma) - FMul(sigma, FSqrt(T))

BsCall(S, K, T, r, sigma) ==
    FMul(S, NormCdf(BsD1(S, K, T, r, sigma)))
    - FMul(FMul(K, FExp(FMul(-r, T))), NormCdf(BsD2(S, K, T, r, sigma)))

\* BsPut with norm.cdf(d2) in place of norm.cdf(-d2)
BsPutSignSlip(S, K, T, r, sigma) ==
    FMul(FMul(K, FExp(FMul(-r, T))), NormCdf(BsD2(S, K, T, r, sigma)))
    - FMul(S, NormCdf(-BsD1(S, K, T, r, sigma)))

BsPut(S, K, T, r, sigma) ==
    FMul(FMul(K, FExp(FMul(-r, T))), NormCdf(-BsD2(S, K, T, r, sigma)))
    - FMul(S, NormCdf(-BsD1(S, K, T, r, sigma)))

black_scholes_price(S, K, T, r, sigma, option_type) ==
    IF option_type = "call" THEN Returned(BsCall(S, K, T, r, sigma))
    ELSE IF option_type = "put" THEN Returned(BsPut(S, K, T, r, sigma))
    ELSE Raised(InvalidOptionType)

(***************************************************************************)
(* binomial_tree_price, piece by piece.  Arrays are sequences: the numpy   *)
(* entry a[i] is the sequence entry a[i + 1].                              *)
(***************************************************************************)
\* dt = T / steps, for steps > 0
TreeDt(T, steps) == RoundDiv(T, steps)

TreeU(T, sigma, steps) == FExp(FMul(sigma, FSqrt(TreeDt(T, steps))))

TreeD(T, sigma, steps) == FDiv(One, TreeU(T, sigma, steps))

TreeQ(T, r, sigma, steps) ==
    FDiv(FExp(FMul(r, TreeDt(T, steps))) - TreeD(T, sigma, steps),
         TreeU(T, sigma, steps) - TreeD(T, sigma, steps))

\* np.exp(-r * dt)
TreeDisc(T, r, steps) == FExp(FMul(-r, TreeDt(T, steps)))

\* An array built entry by entry, as the sequence of its entries.
Array(f) == f \o << >>

\* np.zeros(n)
Zeros(n) == Array([i \in 1 .. n |-> 0])

\* prices[0] = S * d ** steps
FirstPrice(S, d, steps) == FMul(S, FPow(d, steps))

\* NextPrice without the division: prices[i] = prices[i - 1] * u
NextPriceUpOnly(p, u, d) == FMul(p, u)

\* prices[i] = prices[i - 1] * u / d
NextPrice(p, u, d) == FDiv(FMul(p, u), d)

\* np.maximum(0, (prices - K) if option_type == "call" else (K - prices)), one entry
Payoff(p, K, option_type) ==
    LET x == IF option_type = "call" THEN p - K ELSE K - p
    IN  IF x > 0 THEN x ELSE 0

Payoffs(prices, K, option_type) ==
    Array([i \in 1 .. Len(prices) |-> Payoff(prices[i], K, option_type)])

RECURSIVE UpdateDown(_, _, _, _, _)
\* for k from hi down to lo: values[k] updated in place, one entry at a time
UpdateDown(values, hi, lo, q, disc) ==
    IF Len(values) <= hi \/ hi < lo THEN values
    ELSE IF hi = lo
    THEN [values EXCEPT ![hi] =
            FMul(disc, FMul(q, values[hi + 1]) + FMul(One - q, values[hi]))]
    ELSE LET mid == (lo + hi) \div 2
         IN  UpdateDown(UpdateDown(values, hi, mid + 1, q, disc), mid, lo, q, disc)

\* StepValues as an element-by-element loop from the last entry down, which
\* reads entries the same pass has already overwritten
StepValuesElementwise(values, q, disc) == UpdateDown(values, Len(values) - 1, 1, q, disc)

\* values[:-1] = np.exp(-r * dt) * (q * values[1:] + (1 - q) * values[:-1]):
\* the right-hand side is evaluated on the old array, then stored; the last
\* entry is left as it was.
StepValues(values, q, disc) ==
    Array([i \in 1 .. Len(values) |->
              IF i < Len(values)
              THEN FMul(disc, FMul(q, values[i + 1]) + FMul(One - q, values[i]))
              ELSE values[i]])

RECURSIVE FillPrices(_, _, _, _, _)
\* prices after the iterations i = lo .. hi (in that order) of
\* for i in range(1, steps + 1): prices[i] = prices[i - 1] * u / d
FillPrices(prices, lo, hi, u, d) ==
    IF Len(prices) <= hi \/ lo > hi THEN prices   \* (lo .. hi index the array)
    ELSE IF lo = hi THEN [prices EXCEPT ![lo + 1] = NextPrice(prices[lo], u, d)]
    ELSE LET mid == (lo + hi) \div 2
         IN  FillPrices(FillPrices(prices, lo, mid, u, d), mid + 1, hi, u, d)

RECURSIVE Induct(_, _, _, _)
\* values after n iterations of for _ in range(steps): values[:-1] = ...
Induct(values, n, q, disc) ==
    IF Len(values) <= 1 \/ n <= 0 THEN values     \* (values[:-1] is empty, or no step)
    ELSE IF n = 1 THEN StepValues(values, q, disc)
    ELSE Induct(Induct(values, n \div 2, q, disc), n - n \div 2, q, disc)

\* The whole function.  numpy says whether T / steps is a numpy division (T or
\* steps a numpy scalar), which yields inf for steps = 0 where Python raises.
binomial_tree_price(S, K, T, r, sigma, steps, option_type, numpy) ==
    IF steps = 0 /\ ~numpy THEN Raised(ZeroDivision)
    ELSE IF steps + 1 < 0 THEN Raised(NegativeDimensions)
    ELSE IF steps + 1 = 0 THEN Raised(IndexOutOfBounds)
    ELSE IF steps = 0
         \* dt = inf, u = inf, d = 0.0, q = nan; d ** 0 = 1.0 and no loop runs
         THEN Returned(Payoff(FMul(S, FPow(0, 0)), K, option_type))
    ELSE LET u == TreeU(T, sigma, steps)
             d == TreeD(T, sigma, steps)
             prices == FillPrices([Zeros(steps + 1) EXCEPT ![1] = FirstPrice(S, d, steps)],
                                  1, steps, u, d)
             values == Induct(Payoffs(prices, K, option_type), steps,
                              TreeQ(T, r, sigma, steps), TreeDisc(T, r, steps))
         IN  Returned(values[1])

(***************************************************************************)
(* generate_heatmap, piece by piece                                        *)
(***************************************************************************)
\* steps=50 in the signature of generate_heatmap
DefaultSteps == 50

\* The steps argument of a call: the keyword when the caller gave one, else the
\* default.  A keyword (and a dict {"steps": n}) is the sequence <<n>>, its
\* absence (the dict {}) the empty sequence.
StepsArg(steps_kw) == IF steps_kw = << >> THEN DefaultSteps ELSE steps_kw[1]

\* np.zeros((n, m))
Zeros2(n, m) == Array([i \in 1 .. n |-> Zeros(m)])

\* HeatmapCell without option_type in the calls: the pricers' default "call"
HeatmapCellDefaultType(a, i, j) ==
    IF a.model_func = "binomial_tree_price"
    THEN binomial_tree_price(a.S_range[j + 1], a.K, a.T, a.r, a.vol_range[i + 1],
                             StepsArg(a.steps_kw), "call", a.numpy)
    ELSE black_scholes_price(a.S_range[j + 1], a.K, a.T, a.r, a.vol_range[i + 1], "call")

\* The body of the two loops for cell (i, j): the dispatch on the function's
\* name and the call of the pricer.  model_params is not read.
HeatmapCell(a, i, j) ==
    IF a.model_func = "binomial_tree_price"
    THEN binomial_tree_price(a.S_range[j + 1], a.K, a.T, a.r, a.vol_range[i + 1],
                             StepsArg(a.steps_kw), a.option_type, a.numpy)
    ELSE black_scholes_price(a.S_range[j + 1], a.K, a.T, a.r, a.vol_range[i + 1],
                             a.option_type)

\* What the cell's call passes for steps: <<n>>, or << >> for a pricer without it.
ForwardedSteps(a) ==
    IF a.model_func = "binomial_tree_price" THEN <<StepsArg(a.steps_kw)>> ELSE << >>

\* prices[i, j] = v
WriteCell(grid, i, j, v) == [grid EXCEPT ![i + 1][j + 1] = v]

\* NextCell with the loops exchanged: outer over S_range, inner over vol_range
NextCellColumnMajor(i, j, n, m) ==
    IF i + 1 < n THEN <<i + 1, j>> ELSE IF j + 1 < m THEN <<0, j + 1>> ELSE <<n, 0>>

\* The cell the loops reach after cell (i, j) of an n x m grid; <<n, 0>> when
\* they are over.  Outer loop over vol_range, inner loop over S_range.
NextCell(i, j, n, m) == IF j + 1 < m THEN <<i, j + 1>> ELSE <<i + 1, 0>>

\* The first cell of the loops, <<n, 0>> when there is none.
FirstCell(n, m) == IF m = 0 THEN <<n, 0>> ELSE <<0, 0>>

(***************************************************************************)
(* The callers' inputs (black_scholes_web_app.py)                          *)
(***************************************************************************)
\* np.arange(lo, lo + m): m consecutive spot prices
Arange(lo, m) == Array([j \in 1 .. m |-> lo + (j - 1) * One])

\* np.linspace(lo, hi, n)
Linspace(lo, hi, n) ==
    Array([i \in 1 .. n |-> IF n = 1 THEN lo ELSE lo + RoundDiv((i - 1) * (hi - lo), n - 1)])

\* models = {...}: the two pricers
Models == {"black_scholes_price", "binomial_tree_price"}

\* Largest step count, number of spot prices and number of volatilities tried.
MaxSteps == 3

MaxSpots == 2

MaxVols == 2

Spots == {90 * One, 100 * One, 110 * One}

Strikes == {95 * One, 100 * One}

Maturities == {Half, One}

Rates == {0, (5 * One) \div 100}

Vols == {One \div 10, One \div 5, (3 * One) \div 10}

OptionTypes == {"call", "put", "straddle"}

StepCounts == (-2) .. MaxSteps

NoArgs ==
    [S |-> 0, K |-> 0, T |-> 0, r |-> 0, sigma |-> 0, steps |-> 0, option_type |-> "",
     numpy |-> FALSE, S_range |-> << >>, vol_range |-> << >>, model_func |-> "",
     model_params |-> << >>, steps_kw |-> << >>]

(***************************************************************************)
(* State                                                                   *)
(***************************************************************************)
VARIABLES
    pc,       \* where the running call stands
    func,     \* the function called
    arg,      \* its arguments
    prices,   \* binomial_tree_price: prices; generate_heatmap: prices (the grid)
    values,   \* binomial_tree_price: values
    i,        \* the loop counter (generate_heatmap: the row)
    j,        \* generate_heatmap: the column
    calls,    \* generate_heatmap: the pricer calls made so far, in order
    res,      \* how the call ended
    run,      \* generate_heatmap: 1 for the first call, 2 for the call repeated
    first     \* generate_heatmap: the grid the first call built

vars == <<pc, func, arg, prices, values, i, j, calls, res, run, first>>

Pending == [err |-> "pending", value |-> 0]

Init ==
    /\ pc = "idle"
    /\ func = ""
    /\ arg = NoArgs
    /\ prices = << >>
    /\ values = << >>
    /\ i = 0
    /\ j = 0
    /\ calls = << >>
    /\ res = Pending
    /\ run = 1
    /\ first = << >>

\* black_scholes_price(S, K, T, r, sigma, option_type)
CallBlackScholes ==
    /\ pc = "idle"
    /\ \E S \in Spots, K \in Strikes, T \in Maturities, r \in Rates, sigma \in Vols,
          option_type \in OptionTypes :
          /\ arg' = [NoArgs EXCEPT !.S = S, !.K = K, !.T = T, !.r = r, !.sigma = sigma,
                                   !.option_type = option_type]
          /\ res' = black_scholes_price(S, K, T, r, sigma, option_type)
    /\ func' = "black_scholes_price"
    /\ pc' = "done"
    /\ UNCHANGED <<prices, values, i, j, calls, run, first>>

\* binomial_tree_price(S, K, T, r, sigma, steps, option_type): entry
CallBinomialTree ==
    /\ pc = "idle"
    /\ \E S \in Spots, K \in Strikes, T \in Maturities, r \in Rates, sigma \in Vols,
          steps \in StepCounts, option_type \in OptionTypes, numpy \in BOOLEAN :
          arg' = [NoArgs EXCEPT !.S = S, !.K = K, !.T = T, !.r = r, !.sigma = sigma,
                                !.steps = steps, !.option_type = option_type,
                                !.numpy = numpy]
    /\ func' = "binomial_tree_price"
    /\ pc' = "tree_setup"
    /\ UNCHANGED <<prices, values, i, j, calls, res, run, first>>

\* lines 21-27: dt, u, d, q, prices = np.zeros(steps + 1), prices[0] = S * d ** steps
TreeSetup ==
    /\ pc = "tree_setup"
    /\ IF arg.steps = 0 /\ ~arg.numpy
       THEN /\ res' = Raised(ZeroDivision) /\ pc' = "done" /\ UNCHANGED prices
       ELSE IF arg.steps + 1 < 0
       THEN /\ res' = Raised(NegativeDimensions) /\ pc' = "done" /\ UNCHANGED prices
       ELSE IF arg.steps + 1 = 0
       THEN /\ res' = Raised(IndexOutOfBounds) /\ pc' = "done" /\ UNCHANGED prices
       ELSE /\ prices' = [Zeros(arg.steps + 1) EXCEPT ![1] =
                            IF arg.steps = 0
                            THEN FirstPrice(arg.S, 0, 0)
                            ELSE FirstPrice(arg.S, TreeD(arg.T, arg.sigma, arg.steps),
                                            arg.steps)]
            /\ pc' = "tree_fill"
            /\ UNCHANGED res
    /\ i' = 1
    /\ UNCHANGED <<func, arg, values, j, calls, run, first>>

\* lines 28-29: one iteration of the loop that fills prices
TreeFill ==
    /\ pc = "tree_fill"
    /\ i <= arg.steps
    /\ prices' = [prices EXCEPT ![i + 1] =
                    NextPrice(prices[i], TreeU(arg.T, arg.sigma, arg.steps),
                              TreeD(arg.T, arg.sigma, arg.steps))]
    /\ i' = i + 1
    /\ UNCHANGED <<pc, func, arg, values, j, calls, res, run, first>>

\* line 31: the terminal payoffs
TreePayoff ==
    /\ pc = "tree_fill"
    /\ i > arg.steps
    /\ values' = Payoffs(prices, arg.K, arg.option_type)
    /\ i' = 0
    /\ pc' = "tree_induct"
    /\ UNCHANGED <<func, arg, prices, j, calls, res, run, first>>

\* lines 33-34: one iteration of the backward induction
TreeInduct ==
    /\ pc = "tree_induct"
    /\ i < arg.steps
    /\ values' = StepValues(values, TreeQ(arg.T, arg.r, arg.sigma, arg.steps),
                            TreeDisc(arg.T, arg.r, arg.steps))
    /\ i' = i + 1
    /\ UNCHANGED <<pc, func, arg, prices, j, calls, res, run, first>>

\* line 36: return values[0]
TreeReturn ==
    /\ pc = "tree_induct"
    /\ i >= arg.steps
    /\ res' = Returned(values[1])
    /\ pc' = "done"
    /\ UNCHANGED <<func, arg, prices, values, i, j, calls, run, first>>

\* The state generate_heatmap starts its loops in (line 41).
HeatmapStart(a) ==
    /\ prices' = Zeros2(Len(a.vol_range), Len(a.S_range))
    /\ i' = FirstCell(Len(a.vol_range), Len(a.S_range))[1]
    /\ j' = 0
    /\ calls' = << >>
    /\ res' = Pending
    /\ pc' = "heatmap_loop"

\* generate_heatmap(S_range, vol_range, K, T, r, model_func, model_params,
\*                  [steps,] option_type): entry
CallGenerateHeatmap ==
    /\ pc = "idle"
    /\ \E lo \in {99 * One}, m \in 0 .. MaxSpots, n \in 0 .. MaxVols,
          K \in {100 * One}, T \in {One}, r \in {(5 * One) \div 100},
          model_func \in Models, model_params \in {<< >>, <<2>>},
          steps_kw \in {<< >>, <<2>>}, option_type \in OptionTypes :
          /\ arg' = [NoArgs EXCEPT !.S_range = Arange(lo, m),
                                   !.vol_range = Linspace(One \div 10, (3 * One) \div 10, n),
                                   !.K = K, !.T = T, !.r = r, !.model_func = model_func,
                                   !.model_params = model_params, !.steps_kw = steps_kw,
                                   !.option_type = option_type]
          /\ HeatmapStart(arg')
    /\ func' = "generate_heatmap"
    /\ UNCHANGED <<values, run, first>>

\* lines 43-48: one cell
HeatmapLoop ==
    /\ pc = "heatmap_loop"
    /\ i < Len(arg.vol_range)
    /\ LET c == HeatmapCell(arg, i, j)
           nxt == NextCell(i, j, Len(arg.vol_range), Len(arg.S_range))
       IN  /\ calls' = Append(calls, [row |-> i, col |-> j, sigma |-> arg.vol_range[i + 1],
                                      S |-> arg.S_range[j + 1], func |-> arg.model_func,
                                      steps |-> ForwardedSteps(arg),
                                      option_type |-> arg.option_type])
           /\ IF c.err = "none"
              THEN /\ prices' = WriteCell(prices, i, j, c.value)
                   /\ i' = nxt[1]
                   /\ j' = nxt[2]
                   /\ UNCHANGED <<pc, res>>
              ELSE /\ res' = c
                   /\ pc' = "done"
                   /\ UNCHANGED <<prices, i, j>>
    /\ UNCHANGED <<func, arg, values, run, first>>

\* lines 50-51: the loops are over; plt.subplots, then sns.heatmap, and sns is
\* not a name of the module.  Lines 54-68 are never reached.
HeatmapRender ==
    /\ pc = "heatmap_loop"
    /\ i >= Len(arg.vol_range)
    /\ res' = Raised(NameErrorSns)
    /\ pc' = "done"
    /\ UNCHANGED <<func, arg, prices, values, i, j, calls, run, first>>

\* The caller calls generate_heatmap again with the same arguments.
HeatmapAgain ==
    /\ pc = "done"
    /\ func = "generate_heatmap"
    /\ run = 1
    /\ first' = prices
    /\ run' = 2
    /\ HeatmapStart(arg)
    /\ UNCHANGED <<func, arg, values>>

Next ==
    \/ CallBlackScholes
    \/ CallBinomialTree
    \/ TreeSetup
    \/ TreeFill
    \/ TreePayoff
    \/ TreeInduct
    \/ TreeReturn
    \/ CallGenerateHeatmap
    \/ HeatmapLoop
    \/ HeatmapRender
    \/ HeatmapAgain

Spec == Init /\ [][Next]_vars

(***************************************************************************)
(* Properties                                                              *)
(***************************************************************************)
InHeatmap == func = "generate_heatmap"

InTree == func = "binomial_tree_price"

\* Cell (a, b), counted from 0, has been computed and stored.
CellDone(a, b) == a < i \/ (a = i /\ b < j)

\* The pricer the heatmap was asked for, applied to one cell's inputs.
SelectedPricer(S, sigma) ==
    IF arg.model_func = "binomial_tree_price"
    THEN binomial_tree_price(S, arg.K, arg.T, arg.r, sigma, StepsArg(arg.steps_kw),
                             arg.option_type, arg.numpy)
    ELSE black_scholes_price(S, arg.K, arg.T, arg.r, sigma, arg.option_type)

\* C1: the grid generate_heatmap builds has len(vol_range) rows of len(S_range)
\* columns; every cell computed so far holds the selected pricer's price for
\* (S_range[j], K, T, r, vol_range[i], option_type); and a second call with the
\* same arguments ends with the same grid as the first.
GridMatchesPricer ==
    InHeatmap =>
        /\ Len(prices) = Len(arg.vol_range)
        /\ \A a \in 1 .. Len(prices) : Len(prices[a]) = Len(arg.S_range)
        /\ \A a \in 1 .. Len(arg.vol_range), b \in 1 .. Len(arg.S_range) :
              CellDone(a - 1, b - 1) =>
                  /\ SelectedPricer(arg.S_range[b], arg.vol_range[a]).err = "none"
                  /\ prices[a][b] = SelectedPricer(arg.S_range[b], arg.vol_range[a]).value
        /\ (run = 2 /\ pc = "done") => prices = first

\* C1 witness: a 2 x 2 grid of binomial put prices has been built twice.
GridBuiltTwice ==
    /\ InHeatmap /\ run = 2 /\ pc = "done"
    /\ arg.model_func = "binomial_tree_price" /\ arg.option_type = "put"
    /\ Len(arg.vol_range) = 2 /\ Len(arg.S_range) = 2
    /\ Len(calls) = 4
    /\ prices[1][2] # prices[2][1]

\* C2: called with an option type that is neither "call" nor "put", both
\* pricers end by raising the invalid-option-type error.
InvalidTypeRaises ==
    (/\ pc = "done"
     /\ func \in Models
     /\ arg.option_type \notin {"call", "put"})
        => res.err = InvalidOptionType

\* C3: when the binomial pricer is selected and the caller gave a step count in
\* model_params, every cell's call of the pricer passes that step count.
CellsUseSuppliedSteps ==
    (/\ InHeatmap
     /\ arg.model_func = "binomial_tree_price"
     /\ arg.model_params # << >>)
        => \A k \in 1 .. Len(calls) : calls[k].steps = arg.model_params

\* C4: with an option type that is neither "call" nor "put" and a grid of at
\* least one cell, generate_heatmap ends by raising the invalid-option-type
\* error from its first cell: one pricer call, nothing stored.
InvalidTypeAbortsFirstCell ==
    (/\ InHeatmap
     /\ pc = "done"
     /\ arg.option_type \notin {"call", "put"}
     /\ Len(arg.vol_range) >= 1 /\ Len(arg.S_range) >= 1)
        => /\ res.err = InvalidOptionType
           /\ Len(calls) = 1
           /\ prices = Zeros2(Len(arg.vol_range), Len(arg.S_range))

\* C5: with option type "call" or "put" and a grid of at least one cell,
\* generate_heatmap ends by returning, not by raising.
HeatmapReturns ==
    (/\ InHeatmap
     /\ pc = "done"
     /\ arg.option_type \in {"call", "put"}
     /\ Len(arg.vol_range) >= 1 /\ Len(arg.S_range) >= 1)
        => res.err = "none"

\* C6: binomial_tree_price called with steps <= 0 ends by raising; it never
\* returns a price.
NonPositiveStepsRejected ==
    (InTree /\ pc = "done" /\ arg.steps <= 0) => res.err # "none"

\* S - K e^(-rT) for the arguments of the running call
ParityGap == arg.S - FMul(arg.K, FExp(FMul(-arg.r, arg.T)))

\* C7: the price black_scholes_price returns for a call minus the one it
\* returns for a put with the same S, K, T, r, sigma is S - K e^(-rT), to within
\* two units of the last digit (the roundings of the four products).
PutCallParity ==
    (func = "black_scholes_price" /\ pc = "done" /\ res.err = "none") =>
        LET other == black_scholes_price(arg.S, arg.K, arg.T, arg.r, arg.sigma,
                                         IF arg.option_type = "call" THEN "put" ELSE "call")
            c == IF arg.option_type = "call" THEN res.value ELSE other.value
            p == IF arg.option_type = "put" THEN res.value ELSE other.value
        IN  Abs((c - p) - ParityGap) <= 2

\* C7 witness: a put has been priced in the money, with a discounted strike.
ParityCase ==
    /\ func = "black_scholes_price" /\ pc = "done"
    /\ arg.option_type = "put" /\ arg.r > 0 /\ arg.S < arg.K
    /\ res.err = "none" /\ res.value > 0

\* One step of the reference backward induction: a layer of m values becomes
\* one of m - 1.
RefCollapse(layer, q, disc) ==
    Array([k \in 1 .. Len(layer) - 1 |->
              RoundDiv(disc * (RoundDiv(q * layer[k + 1], Scale)
                               + RoundDiv((One - q) * layer[k], Scale)), Scale)])

RECURSIVE RefLayer(_, _, _, _)
\* The reference layer after n steps.
RefLayer(layer, n, q, disc) ==
    IF n <= 0 THEN layer ELSE RefCollapse(RefLayer(layer, n - 1, q, disc), q, disc)

\* C8: for steps >= 1, after n iterations of the in-place update the first
\* steps + 1 - n entries of values are the reference layer after n steps from
\* the terminal payoffs, and the value returned is the single entry of the
\* reference layer after steps steps.
InPlaceInductionIsReference ==
    (InTree /\ arg.steps >= 1 /\ (pc = "tree_induct" \/ (pc = "done" /\ res.err = "none"))) =>
        LET q == TreeQ(arg.T, arg.r, arg.sigma, arg.steps)
            disc == TreeDisc(arg.T, arg.r, arg.steps)
            ref == RefLayer(Payoffs(prices, arg.K, arg.option_type), i, q, disc)
        IN  /\ Len(values) = arg.steps + 1
            /\ SubSeq(values, 1, arg.steps + 1 - i) = ref
            /\ pc = "done" => (i = arg.steps /\ res.value = ref[1])

\* C8 witness: a three-step tree has been priced, and its stale tail differs
\* from the price returned.
StaleTailIgnored ==
    /\ InTree /\ pc = "done" /\ res.err = "none"
    /\ arg.steps = 3
    /\ res.value > 0
    /\ values[3] # values[1] /\ values[4] # values[1]

\* C9: for steps >= 1 and option type "call" or "put", once prices is filled it
\* has steps + 1 entries, starts at S d^steps, each entry is the one before
\* times u over d, entry i is S d^(steps - i) u^i to within a thousandth of S per
\* step, and the terminal payoffs are max(0, S_i - K) for a call and
\* max(0, K - S_i) for a put, none negative.
TerminalLayer ==
    (/\ InTree /\ pc = "tree_induct" /\ arg.steps >= 1
     /\ arg.option_type \in {"call", "put"}) =>
        LET u == TreeU(arg.T, arg.sigma, arg.steps)
            d == TreeD(arg.T, arg.sigma, arg.steps)
            N == arg.steps
        IN  /\ Len(prices) = N + 1
            /\ prices[1] = FMul(arg.S, FPow(d, N))
            /\ \A k \in 1 .. N :
                  prices[k + 1] = RoundDiv(RoundDiv(prices[k] * u, Scale) * Scale, d)
            /\ \A k \in 0 .. N :
                  Abs(prices[k + 1] - FMul(FMul(arg.S, FPow(d, N - k)), FPow(u, k)))
                      <= (N + 1) * (arg.S \div Scale)
            /\ i = 0 =>
                  /\ Len(values) = N + 1
                  /\ \A k \in 1 .. N + 1 :
                        /\ values[k] >= 0
                        /\ values[k] =
                              IF arg.option_type = "call"
                              THEN (IF prices[k] > arg.K THEN prices[k] - arg.K ELSE 0)
                              ELSE (IF arg.K > prices[k] THEN arg.K - prices[k] ELSE 0)

\* C9 witness: the terminal layer of a three-step call has just been valued,
\* with entries out of and in the money.
TerminalLayerBuilt ==
    /\ InTree /\ pc = "tree_induct" /\ i = 0
    /\ arg.steps = 3 /\ arg.option_type = "call"
    /\ values[1] = 0 /\ values[4] > 0
    /\ prices[1] < arg.K /\ prices[4] > arg.K

\* C10: the pricer calls of one generate_heatmap call run through the grid in
\* row-major order (the k-th call is for row (k - 1) div m and column
\* (k - 1) mod m, with that row's volatility and that column's spot price), one
\* call per cell, and a cell not reached yet still holds the 0.0 it was
\* created with; rows are the entries of vol_range and columns those of S_range.
RowMajorOrder ==
    InHeatmap =>
        LET n == Len(arg.vol_range)
            m == Len(arg.S_range)
        IN  /\ Len(calls) <= n * m
            /\ \A k \in 1 .. Len(calls) :
                  /\ calls[k].row = (k - 1) \div m
                  /\ calls[k].col = (k - 1) % m
                  /\ calls[k].sigma = arg.vol_range[calls[k].row + 1]
                  /\ calls[k].S = arg.S_range[calls[k].col + 1]
            /\ res.err = "pending" => (Len(calls) = i * m + j /\ j < m + 1)
            /\ Len(prices) = n
            /\ \A a \in 1 .. n, b \in 1 .. m :
                  /\ Len(prices[a]) = m
                  /\ ~CellDone(a - 1, b - 1) => prices[a][b] = 0

\* C10 witness: in a 2 x 2 grid the first row is done and the second begun.
SecondRowBegun ==
    /\ InHeatmap /\ pc = "heatmap_loop"
    /\ Len(arg.vol_range) = 2 /\ Len(arg.S_range) = 2
    /\ Len(calls) = 3 /\ i = 1 /\ j = 1
    /\ prices[1][1] # 0 /\ prices[1][2] # 0 /\ prices[2][1] # 0 /\ prices[2][2] = 0

=============================================================================
